---------------------------- MODULE Spec2Model ----------------------------
(* A model of the llvm-lang front end: the character-level Lexer           *)
(* (src/lexer/lexer.go), the token and character-class packages            *)
(* (src/unnamed/part_001, part_000), the AST rendering and the Pratt        *)
(* parser (src/parser/parser.go).                                           *)
(*                                                                          *)
(* A source text is a sequence of one-symbol strings; Go's 0-based index i  *)
(* is element i + 1 of the sequence.  A token literal is a sequence of      *)
(* symbols as well, so that literals can be cut out of the source and       *)
(* compared.                                                                *)
EXTENDS Integers, Sequences, FiniteSets, TLC

VARIABLES
    input,      \* the case the source text was built from, or the source itself
    source,     \* Lexer.source: the immutable source text
    lexer,      \* the Lexer object: position, readPosition, char
    tok,        \* the token the last Lexer.NextToken call returned
    calls,      \* number of Lexer.NextToken calls made so far
    tokStart,   \* Lexer.position at the dispatch of the last NextToken call
    panicked,   \* a run-time panic (index or slice out of range) has happened
    pc,         \* "lex": a client pulling tokens; "new"/"parse"/"done": the parser
    parser,     \* the Parser object: currToken, peekToken, errors
    program     \* ast.Program.Stmts built by ParseProgram

vars == <<input, source, lexer, tok, calls, tokStart, panicked, pc, parser, program>>

-----------------------------------------------------------------------------
(* Bounds of the model *)

MaxSrcLen == 3
MaxCalls == 5

-----------------------------------------------------------------------------
(* Symbols *)

\* the byte 0, which readChar also uses as the end sentinel
NUL == "NUL"
\* one byte >= 0x80 (0xE9), and the two bytes Go's string(byte) turns it into
HiByte == "0xE9"
HiByteUtf8 == <<"0xC3", "0xA9">>

eqSym == "="
leftParen == "("
rightParen == ")"
leftSquareBracket == "["
rightSquareBracket == "]"
leftCurlyBracket == "{"
rightCurlyBracket == "}"
semi == ";"
comma == ","
colon == ":"
dot == "."
quote == "\""
plus == "+"
star == "*"
slash == "/"
minus == "-"
modulo == "%"
greaterThan == ">"
lessThan == "<"
bang == "!"
ampersand == "&"
pipe == "|"

LowerLetters ==
    {"a", "b", "c", "d", "e", "f", "g", "h", "i", "j", "k", "l", "m",
     "n", "o", "p", "q", "r", "s", "t", "u", "v", "w", "x", "y", "z"}
UpperLetters ==
    {"A", "B", "C", "D", "E", "F", "G", "H", "I", "J", "K", "L", "M",
     "N", "O", "P", "Q", "R", "S", "T", "U", "V", "W", "X", "Y", "Z"}
Digits == {"0", "1", "2", "3", "4", "5", "6", "7", "8", "9"}

IsAlpha(c) == c \in LowerLetters \cup UpperLetters \cup {"_"}
IsNumeric(c) == c \in Digits
IsSkipable(c) == c \in {" ", "\t", "\n", "\r"}

-----------------------------------------------------------------------------
(* Tokens *)

Identifier == "Identifier"
Number == "Number"
String == "String"
Def == "Def"
Extern == "Extern"
LeftParen == "LeftParen"
RightParen == "RightParen"
LeftCurlyBracket == "LeftCurlyBracket"
RightCurlyBracket == "RightCurlyBracket"
LeftSquareBracket == "LeftSquareBracket"
RightSquareBracket == "RightSquareBracket"
Semicolon == "Semicolon"
Comma == "Comma"
Colon == "Colon"
Dot == "Dot"
Plus == "Plus"
Minus == "Minus"
Slash == "Slash"
Star == "Star"
Modulo == "Modulus"
Assign == "Assign"
GreaterThan == "GreaterThan"
LessThan == "LessThan"
Bang == "Bang"
EqualTo == "Equality"
GreaterThanEqualTo == "GreaterThanEqualTo"
LessThanEqualTo == "LessThanEqualTo"
NotEqualTo == "NotEqual"
And == "And"
Or == "Or"
EOF == "EOF"
Illegal == "Illegal"

\* the zero value of token.Token
ZeroToken == [Type |-> "", Literal |-> <<>>]

\* string(char) of a byte: the UTF-8 encoding of the code point of that value
StringOfByte(c) == IF c = HiByte THEN HiByteUtf8 ELSE <<c>>

MakeToken(Type, char) == [Type |-> Type, Literal |-> StringOfByte(char)]

-----------------------------------------------------------------------------
(* Lexer *)

\* source[i]
ByteAt(src, i) == src[i + 1]

\* source[a:b], which panics unless 0 <= a <= b <= len(source)
SliceOk(src, a, b) == 0 <= a /\ a <= b /\ b <= Len(src)
Slice(src, a, b) == SubSeq(src, a + 1, b)

\* readChar advancing readPosition by two
readChar_Skip(src, l) ==
    [position |-> l.readPosition,
     readPosition |-> l.readPosition + 2,
     char |-> IF l.readPosition >= Len(src) THEN NUL ELSE ByteAt(src, l.readPosition)]

readChar(src, l) ==
    [position |-> l.readPosition,
     readPosition |-> l.readPosition + 1,
     char |-> IF l.readPosition >= Len(src) THEN NUL ELSE ByteAt(src, l.readPosition)]

\* &Lexer{source: source} followed by readChar
New(src) == readChar(src, [position |-> 0, readPosition |-> 0, char |-> NUL])

RECURSIVE skipWhitespace(_, _)
skipWhitespace(src, l) ==
    IF l.char = " " \/ l.char = "\t" \/ l.char = "\n" \/ l.char = "\r"
    THEN skipWhitespace(src, readChar(src, l))
    ELSE l

peekChar(src, l) ==
    IF l.readPosition >= Len(src) THEN NUL ELSE ByteAt(src, l.readPosition)

RECURSIVE whileAlpha(_, _)
\* the scan not entered: the identifier is left unread
whileAlpha_Stuck(src, l) == l

whileAlpha(src, l) ==
    IF IsAlpha(l.char) THEN whileAlpha(src, readChar(src, l)) ELSE l

\* the lexer after the scan, the literal cut out, and whether the cut panics
readIdentifer(src, l) ==
    LET position == l.position
        l2 == whileAlpha(src, l)
        ok == SliceOk(src, position, l2.position)
    IN [l |-> l2, panic |-> ~ok,
        lit |-> IF ok THEN Slice(src, position, l2.position) ELSE <<>>]

RECURSIVE whileNumber(_, _)
\* the scan stopping at a dot
whileNumber_NoDot(src, l) ==
    IF IsNumeric(l.char) THEN whileNumber(src, readChar(src, l)) ELSE l

whileNumber(src, l) ==
    IF IsNumeric(l.char) \/ l.char = dot
    THEN whileNumber(src, readChar(src, l))
    ELSE l

readNumber(src, l) ==
    LET position == l.position
        l2 == whileNumber(src, l)
        ok == SliceOk(src, position, l2.position)
    IN [l |-> l2, panic |-> ~ok,
        lit |-> IF ok THEN Slice(src, position, l2.position) ELSE <<>>]

RECURSIVE untilQuote(_, _)
untilQuote(src, l) ==
    LET l2 == readChar(src, l)
    IN IF l2.char = quote \/ l2.char = NUL THEN l2 ELSE untilQuote(src, l2)

readString(src, l) ==
    LET position == l.position + 1
        l2 == untilQuote(src, l)
        ok == SliceOk(src, position, l2.position)
    IN [l |-> l2, panic |-> ~ok,
        lit |-> IF ok THEN Slice(src, position, l2.position) ELSE <<>>]

keywords == [def |-> Def, extern |-> Extern]
KeywordDef == <<"d", "e", "f">>
KeywordExtern == <<"e", "x", "t", "e", "r", "n">>

\* LookupIdent matching a keyword at the start of the identifier
LookupIdent_Prefix(ident) ==
    IF Len(ident) >= 3 /\ SubSeq(ident, 1, 3) = KeywordDef THEN keywords.def
    ELSE IF Len(ident) >= 6 /\ SubSeq(ident, 1, 6) = KeywordExtern THEN keywords.extern
    ELSE Identifier

LookupIdent(ident) ==
    IF ident = KeywordDef THEN keywords.def
    ELSE IF ident = KeywordExtern THEN keywords.extern
    ELSE Identifier

\* the two-symbol arm without its readChar
TwoChar_NoAdvance(src, l, second, both, single) ==
    IF peekChar(src, l) = second
    THEN [l |-> l,
          tok |-> [Type |-> both,
                   Literal |-> StringOfByte(l.char) \o StringOfByte(l.char)]]
    ELSE [l |-> l, tok |-> MakeToken(single, l.char)]

\* the `if l.peekChar() == second` arms of =, >, <, !, & and |
TwoChar(src, l, second, both, single) ==
    IF peekChar(src, l) = second
    THEN LET char == l.char
             l2 == readChar(src, l)
         IN [l |-> l2,
             tok |-> [Type |-> both,
                      Literal |-> StringOfByte(char) \o StringOfByte(l2.char)]]
    ELSE [l |-> l, tok |-> MakeToken(single, l.char)]

\* The switch of NextToken for the arms that fall through to the trailing
\* readChar: the lexer and the token before that readChar.
Dispatch(src, l) ==
    LET one(Type) == [l |-> l, tok |-> MakeToken(Type, l.char)]
    IN CASE l.char = leftParen -> one(LeftParen)
         [] l.char = rightParen -> one(RightParen)
         [] l.char = leftCurlyBracket -> one(LeftCurlyBracket)
         [] l.char = rightCurlyBracket -> one(RightCurlyBracket)
         [] l.char = leftSquareBracket -> one(LeftSquareBracket)
         [] l.char = rightSquareBracket -> one(RightSquareBracket)
         [] l.char = semi -> one(Semicolon)
         [] l.char = comma -> one(Comma)
         [] l.char = colon -> one(Colon)
         [] l.char = dot -> one(Dot)
         [] l.char = eqSym -> TwoChar(src, l, eqSym, EqualTo, Assign)
         [] l.char = plus -> one(Plus)
         [] l.char = minus -> one(Minus)
         [] l.char = star -> one(Star)
         [] l.char = slash -> one(Slash)
         [] l.char = modulo -> one(Modulo)
         [] l.char = greaterThan -> TwoChar(src, l, eqSym, GreaterThanEqualTo, GreaterThan)
         [] l.char = lessThan -> TwoChar(src, l, eqSym, LessThanEqualTo, LessThan)
         [] l.char = bang -> TwoChar(src, l, eqSym, NotEqualTo, Bang)
         [] l.char = ampersand -> TwoChar(src, l, ampersand, And, Illegal)
         [] l.char = pipe -> TwoChar(src, l, pipe, Or, Illegal)
         [] l.char = NUL -> [l |-> l, tok |-> [Type |-> EOF, Literal |-> <<>>]]
         [] OTHER -> one(Illegal)

\* One call of Lexer.NextToken: the lexer after it, the token returned, the
\* position at which the switch was entered and whether the call panicked.
NextToken(src, l0) ==
    LET l == skipWhitespace(src, l0)
    IN IF l.char = quote
       THEN LET r == readString(src, l)
            IN [l |-> readChar(src, r.l), start |-> l.position, panic |-> r.panic,
                tok |-> [Type |-> String, Literal |-> r.lit]]
       ELSE IF IsAlpha(l.char)
       THEN LET r == readIdentifer(src, l)
            IN [l |-> r.l, start |-> l.position, panic |-> r.panic,
                tok |-> [Type |-> LookupIdent(r.lit), Literal |-> r.lit]]
       ELSE IF IsNumeric(l.char)
       THEN LET r == readNumber(src, l)
            IN [l |-> r.l, start |-> l.position, panic |-> r.panic,
                tok |-> [Type |-> Number, Literal |-> r.lit]]
       ELSE LET r == Dispatch(src, l)
            IN [l |-> readChar(src, r.l), start |-> l.position, panic |-> FALSE,
                tok |-> r.tok]

-----------------------------------------------------------------------------
(* AST *)

\* the nil ast.Expr
Nil == [kind |-> "nil"]

IdentifierNode(t, value) == [kind |-> "Identifier", Token |-> t, Value |-> value]
NumberLiteral(t, value) == [kind |-> "NumberLiteral", Token |-> t, Value |-> value]
PrefixExpr(t, operator, right) ==
    [kind |-> "PrefixExpr", Token |-> t, Operator |-> operator, Right |-> right]
InfixExpr(t, left, operator, right) ==
    [kind |-> "InfixExpr", Token |-> t, Left |-> left, Operator |-> operator,
     Right |-> right]
\* Arguments is a slice: nil, or a (possibly empty) sequence of expressions
NilList == [nil |-> TRUE, items |-> <<>>]
ExprList(items) == [nil |-> FALSE, items |-> items]
CallExpr(t, function, arguments) ==
    [kind |-> "CallExpr", Token |-> t, Function |-> function, Arguments |-> arguments]
ExpressionStmt(t, expr) == [kind |-> "ExpressionStmt", Token |-> t, Expr |-> expr]

\* strings.Join(parts, sep)
RECURSIVE Join(_, _)
Join(parts, sep) ==
    IF parts = <<>> THEN <<>>
    ELSE IF Len(parts) = 1 THEN parts[1]
    ELSE parts[1] \o sep \o Join(Tail(parts), sep)

\* String() of an expression: the text, and whether rendering panics on a
\* method call through a nil ast.Expr
RECURSIVE ExprString(_)
ExprString(e) ==
    CASE e.kind = "nil" -> [panic |-> TRUE, out |-> <<>>]
      [] e.kind = "Identifier" -> [panic |-> FALSE, out |-> e.Value]
      [] e.kind = "NumberLiteral" -> [panic |-> FALSE, out |-> e.Token.Literal]
      [] e.kind = "PrefixExpr" ->
            LET r == ExprString(e.Right)
            IN [panic |-> r.panic,
                out |-> <<"(">> \o e.Operator \o r.out \o <<")">>]
      [] e.kind = "InfixExpr" ->
            LET a == ExprString(e.Left)
                b == ExprString(e.Right)
            IN [panic |-> a.panic \/ b.panic,
                out |-> <<"(">> \o a.out \o <<" ">> \o e.Operator \o <<" ">>
                        \o b.out \o <<")">>]
      [] e.kind = "CallExpr" ->
            LET args == [i \in 1..Len(e.Arguments.items) |->
                            ExprString(e.Arguments.items[i])]
                f == ExprString(e.Function)
            IN [panic |-> f.panic \/ \E i \in 1..Len(args) : args[i].panic,
                out |-> f.out \o <<"(">>
                        \o Join([i \in 1..Len(args) |-> args[i].out], <<",", " ">>)
                        \o <<")">>]

\* ExpressionStmt.String without its nil check
ExpressionStmtString_NoNilCheck(stmt) == ExprString(stmt.Expr)

ExpressionStmtString(stmt) ==
    IF stmt.Expr.kind # "nil" THEN ExprString(stmt.Expr)
    ELSE [panic |-> FALSE, out |-> <<>>]

RECURSIVE ProgramString(_)
ProgramString(stmts) ==
    IF stmts = <<>> THEN [panic |-> FALSE, out |-> <<>>]
    ELSE LET h == ExpressionStmtString(Head(stmts))
             t == ProgramString(Tail(stmts))
         IN [panic |-> h.panic \/ t.panic, out |-> h.out \o t.out]

-----------------------------------------------------------------------------
(* Parser *)

LOWEST == 1
ANDOR == 2
EQUALS == 3
LESSGREATEREQUAL == 4
LESSGREATER == 5
SUM == 6
PRODUCT == 7
PREFIX == 8
CALL == 9
INDEX == 10

\* the precedences map with SUM and PRODUCT exchanged
precedences_Swapped(t) ==
    CASE t \in {And, Or} -> ANDOR
      [] t \in {EqualTo, NotEqualTo} -> EQUALS
      [] t \in {LessThan, GreaterThan} -> LESSGREATER
      [] t \in {GreaterThanEqualTo, LessThanEqualTo} -> LESSGREATEREQUAL
      [] t \in {Plus, Minus} -> PRODUCT
      [] t \in {Slash, Star, Modulo} -> SUM
      [] t = LeftParen -> CALL
      [] t = LeftSquareBracket -> INDEX
      [] OTHER -> LOWEST

\* the precedences map, LOWEST for a kind it does not hold
precedences(t) ==
    CASE t \in {And, Or} -> ANDOR
      [] t \in {EqualTo, NotEqualTo} -> EQUALS
      [] t \in {LessThan, GreaterThan} -> LESSGREATER
      [] t \in {GreaterThanEqualTo, LessThanEqualTo} -> LESSGREATEREQUAL
      [] t \in {Plus, Minus} -> SUM
      [] t \in {Slash, Star, Modulo} -> PRODUCT
      [] t = LeftParen -> CALL
      [] t = LeftSquareBracket -> INDEX
      [] OTHER -> LOWEST

\* the kinds registerPrefix and registerInfix are called with in New
prefixParseFns == {Identifier, Number, Bang, Minus, LeftParen}
infixParseFns ==
    {Plus, Minus, Slash, Star, Modulo, EqualTo, NotEqualTo, GreaterThanEqualTo,
     LessThanEqualTo, GreaterThan, LessThan, And, Or, LeftParen}

\* The parser and its lexer while a parsing method runs:
\*   l, tok, calls, start, panic: the lexer, as in the variables
\*   curr, peek, errors: Parser.currToken, peekToken, errors
Diagnostic(msg, want, got, literal) ==
    [msg |-> msg, want |-> want, got |-> got, literal |-> literal]

\* noPrefixParseFnError recording nothing
noPrefixParseFnError_Silent(st, t) == st

noPrefixParseFnError(st, t) ==
    [st EXCEPT !.errors = Append(st.errors,
        Diagnostic("no prefix parse function", t, "", <<>>))]

nextToken(src, st) ==
    LET r == NextToken(src, st.l)
    IN [st EXCEPT !.curr = st.peek, !.peek = r.tok, !.l = r.l, !.tok = r.tok,
                  !.calls = st.calls + 1, !.start = r.start,
                  !.panic = st.panic \/ r.panic]

currTokenIs(st, t) == st.curr.Type = t
peekTokenIs(st, t) == st.peek.Type = t

\* peekError assigning the list instead of appending to it
peekError_Overwrite(st, t) ==
    [st EXCEPT !.errors = <<Diagnostic("expected next token", t, st.peek.Type, <<>>)>>]

peekError(st, t) ==
    [st EXCEPT !.errors = Append(st.errors,
        Diagnostic("expected next token", t, st.peek.Type, <<>>))]

\* expectPeek advancing past the token it did not expect
expectPeek_Consume(src, st, t) ==
    IF peekTokenIs(st, t)
    THEN [st |-> nextToken(src, st), ok |-> TRUE]
    ELSE [st |-> nextToken(src, peekError(st, t)), ok |-> FALSE]

\* the parser after the call and the boolean returned
expectPeek(src, st, t) ==
    IF peekTokenIs(st, t)
    THEN [st |-> nextToken(src, st), ok |-> TRUE]
    ELSE [st |-> peekError(st, t), ok |-> FALSE]

peekPrecedence(st) == precedences(st.peek.Type)
\* the right operand parsed one level lower: right-associative chaining
currPrecedence_Lower(st) == precedences(st.curr.Type) - 1

currPrecedence(st) == precedences(st.curr.Type)

\* strconv.ParseFloat(literal, 64) on the literals the lexer produces (digits
\* and dots): it fails unless there is a digit and at most one dot.  A literal
\* too long for a float64 (more than 308 digits) fails as well and lies
\* beyond the bounds here.
DotCount(lit) == Cardinality({i \in 1..Len(lit) : lit[i] = dot})
ParseFloatOk(lit) ==
    /\ \A i \in 1..Len(lit) : lit[i] \in Digits \cup {dot}
    /\ \E i \in 1..Len(lit) : lit[i] \in Digits
    /\ DotCount(lit) <= 1

DigitValue(c) ==
    CASE c = "0" -> 0 [] c = "1" -> 1 [] c = "2" -> 2 [] c = "3" -> 3 [] c = "4" -> 4
      [] c = "5" -> 5 [] c = "6" -> 6 [] c = "7" -> 7 [] c = "8" -> 8 [] c = "9" -> 9

\* the value as a decimal: digits / 10^scale
RECURSIVE DigitsValue(_, _)
DigitsValue(lit, acc) ==
    IF lit = <<>> THEN acc
    ELSE IF Head(lit) = dot THEN DigitsValue(Tail(lit), acc)
    ELSE DigitsValue(Tail(lit), acc * 10 + DigitValue(Head(lit)))

ParseFloat(lit) ==
    LET dots == {i \in 1..Len(lit) : lit[i] = dot}
    IN [digits |-> DigitsValue(lit, 0),
        scale |-> IF dots = {} THEN 0 ELSE Len(lit) - (CHOOSE i \in dots : TRUE)]

parseIdentifier(st) == [st |-> st, e |-> IdentifierNode(st.curr, st.curr.Literal)]

\* parseNumberLiteral returning nil without recording the failure
parseNumberLiteral_Silent(st) ==
    IF ~ParseFloatOk(st.curr.Literal)
    THEN [st |-> st, e |-> Nil]
    ELSE [st |-> st, e |-> NumberLiteral(st.curr, ParseFloat(st.curr.Literal))]

parseNumberLiteral(st) ==
    IF ~ParseFloatOk(st.curr.Literal)
    THEN [st |-> [st EXCEPT !.errors = Append(st.errors,
                      Diagnostic("could not parse as integer", "", "", st.curr.Literal))],
          e |-> Nil]
    ELSE [st |-> st, e |-> NumberLiteral(st.curr, ParseFloat(st.curr.Literal))]

RECURSIVE parseExpression(_, _, _)
RECURSIVE parseInfixLoop(_, _, _)
RECURSIVE parseListRest(_, _, _)

\* Each parsing method gives the parser after the call (st) and the
\* expression returned (e).  Where a method goes on after a nested call, the
\* rest of its body is an operator of its own that takes the nested call's
\* result r.

\* parsePrefixExpr after `expr.Right = p.parseExpression(PREFIX)`
prefixExprReturn(st, r) ==
    [st |-> r.st, e |-> PrefixExpr(st.curr, st.curr.Literal, r.e)]

parsePrefixExpr(src, st) ==
    prefixExprReturn(st, parseExpression(src, nextToken(src, st), PREFIX))

\* parseInfixExpr after `expr.Right = p.parseExpression(precedence)`
infixExprReturn(st, left, r) ==
    [st |-> r.st, e |-> InfixExpr(st.curr, left, st.curr.Literal, r.e)]

parseInfixExpr(src, st, left) ==
    infixExprReturn(st, left,
        parseExpression(src, nextToken(src, st), currPrecedence(st)))

\* parseGroupedExpr after `expr := p.parseExpression(LOWEST)`
groupedExprClose(expr, x) ==
    IF ~x.ok THEN [st |-> x.st, e |-> Nil] ELSE [st |-> x.st, e |-> expr]

groupedExprReturn(src, r) ==
    groupedExprClose(r.e, expectPeek(src, r.st, RightParen))

parseGroupedExpr(src, st) ==
    groupedExprReturn(src, parseExpression(src, nextToken(src, st), LOWEST))

\* the comma loop advancing once only: the comma is parsed as an argument
parseListRest_OneAdvance(src, list, r) ==
    IF peekTokenIs(r.st, Comma)
    THEN parseListRest(src, Append(list, r.e),
             parseExpression(src, nextToken(src, r.st), LOWEST))
    ELSE [st |-> r.st, list |-> Append(list, r.e)]

\* list = append(list, p.parseExpression(LOWEST)), then the
\* `for p.peekTokenIs(token.Comma)` loop of parseExpressionList
parseListRest(src, list, r) ==
    IF peekTokenIs(r.st, Comma)
    THEN parseListRest(src, Append(list, r.e),
             parseExpression(src, nextToken(src, nextToken(src, r.st)), LOWEST))
    ELSE [st |-> r.st, list |-> Append(list, r.e)]

\* parseExpressionList from `if !p.expectPeek(end)` on
expressionListClose(list, x) ==
    IF ~x.ok THEN [st |-> x.st, list |-> NilList]
    ELSE [st |-> x.st, list |-> ExprList(list)]

expressionListReturn(src, rest, end) ==
    expressionListClose(rest.list, expectPeek(src, rest.st, end))

\* the parser after the call and the list returned
parseExpressionList(src, st, end) ==
    IF peekTokenIs(st, end)
    THEN [st |-> nextToken(src, st), list |-> ExprList(<<>>)]
    ELSE expressionListReturn(src,
             parseListRest(src, <<>>,
                 parseExpression(src, nextToken(src, st), LOWEST)),
             end)

callExprReturn(st, function, r) ==
    [st |-> r.st, e |-> CallExpr(st.curr, function, r.list)]

parseCallExpr(src, st, function) ==
    callExprReturn(st, function, parseExpressionList(src, st, RightParen))

\* the for loop of parseExpression, entered with left = r.e
parseInfixLoop(src, r, precedence) ==
    IF ~peekTokenIs(r.st, Semicolon) /\ precedence < peekPrecedence(r.st)
    THEN IF r.st.peek.Type \notin infixParseFns
         THEN r
         ELSE parseInfixLoop(src,
                  IF r.st.peek.Type = LeftParen
                  THEN parseCallExpr(src, nextToken(src, r.st), r.e)
                  ELSE parseInfixExpr(src, nextToken(src, r.st), r.e),
                  precedence)
    ELSE r

parseExpression(src, st, precedence) ==
    IF st.curr.Type \notin prefixParseFns
    THEN [st |-> noPrefixParseFnError(st, st.curr.Type), e |-> Nil]
    ELSE parseInfixLoop(src,
             CASE st.curr.Type = Identifier -> parseIdentifier(st)
               [] st.curr.Type = Number -> parseNumberLiteral(st)
               [] st.curr.Type \in {Bang, Minus} -> parsePrefixExpr(src, st)
               [] st.curr.Type = LeftParen -> parseGroupedExpr(src, st),
             precedence)

\* parseExpressionStmt after `stmt.Expr = p.parseExpression(LOWEST)`
expressionStmtReturn(src, st, r) ==
    IF peekTokenIs(r.st, Semicolon)
    THEN [st |-> nextToken(src, r.st), stmt |-> ExpressionStmt(st.curr, r.e)]
    ELSE [st |-> r.st, stmt |-> ExpressionStmt(st.curr, r.e)]

\* the parser after the call and the statement returned
parseExpressionStmt(src, st) ==
    expressionStmtReturn(src, st, parseExpression(src, st, LOWEST))

parseStatement(src, st) == parseExpressionStmt(src, st)

\* the loop body without its trailing p.nextToken()
programStepReturn_NoAdvance(src, stmts, r) ==
    [st |-> r.st,
     stmts |-> IF r.stmt.kind # "nil" THEN Append(stmts, r.stmt) ELSE stmts]

\* the loop body advancing twice: the token after a statement is skipped
programStepReturn_TwoAdvance(src, stmts, r) ==
    [st |-> nextToken(src, nextToken(src, r.st)),
     stmts |-> IF r.stmt.kind # "nil" THEN Append(stmts, r.stmt) ELSE stmts]

\* the body of the statement loop of ParseProgram after `stmt := p.parseStatement()`
programStepReturn(src, stmts, r) ==
    [st |-> nextToken(src, r.st),
     stmts |-> IF r.stmt.kind # "nil" THEN Append(stmts, r.stmt) ELSE stmts]

\* One iteration of the statement loop of ParseProgram: the parser after it
\* and the statements after it.
ParseProgramStep(src, st, stmts) ==
    programStepReturn(src, stmts, parseStatement(src, st))

-----------------------------------------------------------------------------
(* A client that constructs a Lexer and pulls tokens from it *)

\* the symbols the sources of the lexer specification are made of
LexAlphabet ==
    {eqSym, bang, greaterThan, lessThan, ampersand, pipe,
     "a", "1", " ", quote, dot, "#", NUL, HiByte}

SeqsUpTo(S, n) == UNION {[1..k -> S] : k \in 0..n}

NoParser == [currToken |-> ZeroToken, peekToken |-> ZeroToken, errors |-> <<>>]

\* lexer.New(source), and nothing else constructed or called yet
InitWith(startPc) ==
    /\ lexer = New(source)
    /\ tok = ZeroToken
    /\ calls = 0
    /\ tokStart = 0
    /\ panicked = FALSE
    /\ pc = startPc
    /\ parser = NoParser
    /\ program = <<>>

Init ==
    /\ input \in SeqsUpTo(LexAlphabet, MaxSrcLen)
    /\ source = input
    /\ InitWith("lex")

\* tok := lexer.NextToken()
CallNextToken ==
    /\ pc = "lex"
    /\ ~panicked
    /\ calls < MaxCalls
    /\ LET r == NextToken(source, lexer)
       IN /\ lexer' = r.l
          /\ tok' = r.tok
          /\ tokStart' = r.start
          /\ panicked' = r.panic
    /\ calls' = calls + 1
    /\ UNCHANGED <<input, source, pc, parser, program>>

Next == CallNextToken

Spec == Init /\ [][Next]_vars

\* Sources made of whole words: up to MaxChunks chunks, concatenated.
MaxChunks == 4

IdentChunks ==
    {KeywordDef, KeywordExtern, <<"e">>, <<"i">>, <<"n">>, <<"D">>, <<"_">>,
     <<" ">>, <<"1">>}

RECURSIVE Concat(_)
Concat(ss) == IF ss = <<>> THEN <<>> ELSE Head(ss) \o Concat(Tail(ss))

ChunkSources(chunks, n) == {Concat(ss) : ss \in SeqsUpTo(chunks, n)}

InitIdent ==
    /\ input \in ChunkSources(IdentChunks, MaxChunks)
    /\ source = input
    /\ InitWith("lex")

SpecIdent == InitIdent /\ [][Next]_vars

-----------------------------------------------------------------------------
(* A client that constructs a Parser over the Lexer and calls ParseProgram *)

\* the parser and its lexer, gathered from the variables
Gathered ==
    [l |-> lexer, tok |-> tok, calls |-> calls, start |-> tokStart,
     panic |-> panicked, curr |-> parser.currToken, peek |-> parser.peekToken,
     errors |-> parser.errors]

Scatter(st) ==
    /\ lexer' = st.l
    /\ tok' = st.tok
    /\ calls' = st.calls
    /\ tokStart' = st.start
    /\ panicked' = st.panic
    /\ parser' = [currToken |-> st.curr, peekToken |-> st.peek, errors |-> st.errors]

\* parser.New(l): errors made empty, then nextToken twice
ParserNew ==
    /\ pc = "new"
    /\ Scatter(nextToken(source, nextToken(source, [Gathered EXCEPT !.errors = <<>>])))
    /\ pc' = "parse"
    /\ UNCHANGED <<input, source, program>>

\* one iteration of `for !p.currTokenIs(token.EOF)` in ParseProgram
ParseProgramIter ==
    /\ pc = "parse"
    /\ ~currTokenIs(Gathered, EOF)
    /\ LET r == ParseProgramStep(source, Gathered, program)
       IN /\ Scatter(r.st)
          /\ program' = r.stmts
    /\ UNCHANGED <<input, source, pc>>

\* the loop ends and ParseProgram returns the program
ParseProgramReturn ==
    /\ pc = "parse"
    /\ currTokenIs(Gathered, EOF)
    /\ pc' = "done"
    /\ UNCHANGED <<input, source, lexer, tok, calls, tokStart, panicked, parser, program>>

NextParse == ParserNew \/ ParseProgramIter \/ ParseProgramReturn

\* Sources made of whole lexemes, separated by one space.
MaxToks == 4

ParseLexemes ==
    {<<"a">>, <<"1", ".", "2", ".">>, <<plus>>, <<minus>>, <<leftParen>>,
     <<rightParen>>, <<comma>>, <<semi>>, <<ampersand>>}

LexemeSources(lexemes, n) == {Join(ss, <<" ">>) : ss \in SeqsUpTo(lexemes, n)}

InitParse ==
    /\ input \in LexemeSources(ParseLexemes, MaxToks)
    /\ source = input
    /\ InitWith("new")

SpecParse == InitParse /\ [][NextParse]_vars

\* A client that also renders the returned program: program.String().
\* A nil-interface method call inside String is a run-time panic.
RenderProgram ==
    /\ pc = "done"
    /\ pc' = "rendered"
    /\ panicked' = ProgramString(program).panic
    /\ UNCHANGED <<input, source, lexer, tok, calls, tokStart, parser, program>>

NextRender == NextParse \/ RenderProgram

SpecRender == InitParse /\ [][NextRender]_vars

\* Sources of the shapes the precedence rules are about: two binary
\* operators between three operands, with the first pair in parentheses or
\* not; a prefix operator before the first operand; a call as an operand.
BinaryOperators ==
    {<<plus>>, <<minus>>, <<star>>, <<slash>>, <<modulo>>, <<eqSym, eqSym>>,
     <<bang, eqSym>>, <<greaterThan, eqSym>>, <<lessThan, eqSym>>,
     <<greaterThan>>, <<lessThan>>, <<ampersand, ampersand>>, <<pipe, pipe>>}
PrefixOperators == {<<minus>>, <<bang>>}
Operands == {<<"x">>, <<"2">>}

ExprCase(shape, pre, a, op1, b, op2, c, spaced) ==
    [shape |-> shape, pre |-> pre, a |-> a, op1 |-> op1, b |-> b, op2 |-> op2,
     c |-> c, spaced |-> spaced]

ExprCases ==
    {ExprCase(shape, <<>>, a, op1, b, op2, c, spaced) :
        shape \in {"chain", "group"}, a \in Operands, op1 \in BinaryOperators,
        b \in Operands, op2 \in BinaryOperators, c \in Operands,
        spaced \in BOOLEAN}
    \cup
    {ExprCase(shape, pre, a, op1, b, <<>>, <<>>, spaced) :
        shape \in {"prefix", "call"}, pre \in PrefixOperators,
        a \in Operands, op1 \in BinaryOperators, b \in Operands,
        spaced \in BOOLEAN}
    \cup
    {ExprCase("prefixcall", pre, <<>>, <<>>, b, <<>>, <<>>, spaced) :
        pre \in PrefixOperators, b \in Operands, spaced \in BOOLEAN}

\* the lexemes of a case, in source order
ExprLexemes(t) ==
    CASE t.shape = "chain" -> <<t.a, t.op1, t.b, t.op2, t.c>>
      [] t.shape = "group" ->
            <<<<leftParen>>, t.a, t.op1, t.b, <<rightParen>>, t.op2, t.c>>
      [] t.shape = "prefix" -> <<t.pre, t.a, t.op1, t.b>>
      [] t.shape = "call" ->
            <<t.a, t.op1, <<"f">>, <<leftParen>>, t.b, <<rightParen>>>>
      [] t.shape = "prefixcall" ->
            <<t.pre, <<"f">>, <<leftParen>>, t.b, <<rightParen>>>>

ExprSrc(t) == IF t.spaced THEN Join(ExprLexemes(t), <<" ">>) ELSE Concat(ExprLexemes(t))

InitExpr ==
    /\ input \in ExprCases
    /\ source = ExprSrc(input)
    /\ InitWith("new")

SpecExpr == InitExpr /\ [][NextParse]_vars

\* Sources that are one well-formed call f(a1, ..., an), n <= MaxArgs.
MaxArgs == 2

\* argument expressions: their lexemes, and the rendering expected of them
CallArg(lexemes, text) == [lexemes |-> lexemes, text |-> text]

CallArgs ==
    {CallArg(<<<<"a">>>>, <<"a">>),
     CallArg(<<<<"1">>>>, <<"1">>),
     CallArg(<<<<"2">>, <<plus>>, <<"3">>>>, <<"(", "2", " ", "+", " ", "3", ")">>),
     CallArg(<<<<minus>>, <<"a">>>>, <<"(", "-", "a", ")">>),
     CallArg(<<<<"g">>, <<leftParen>>, <<rightParen>>>>, <<"g", "(", ")">>),
     CallArg(<<<<"h">>, <<leftParen>>, <<"1">>, <<comma>>, <<"b">>, <<rightParen>>>>,
             <<"h", "(", "1", ",", " ", "b", ")">>),
     CallArg(<<<<leftParen>>, <<"a">>, <<star>>, <<"b">>, <<rightParen>>>>,
             <<"(", "a", " ", "*", " ", "b", ")">>)}

CallCases == SeqsUpTo(CallArgs, MaxArgs) \X BOOLEAN

RECURSIVE CallLexemes(_)
CallLexemes(args) ==
    IF args = <<>> THEN <<>>
    ELSE Head(args).lexemes
         \o (IF Len(args) > 1 THEN <<<<comma>>>> ELSE <<>>)
         \o CallLexemes(Tail(args))

CallSrc(t) ==
    LET lexemes == <<<<"f">>, <<leftParen>>>> \o CallLexemes(t[1]) \o <<<<rightParen>>>>
    IN IF t[2] THEN Join(lexemes, <<" ">>) ELSE Concat(lexemes)

InitCall ==
    /\ input \in CallCases
    /\ source = CallSrc(input)
    /\ InitWith("new")

SpecCall == InitCall /\ [][NextParse]_vars

\* Sources with the symbols the lexer has no token for (an unrecognized
\* symbol, a bare & and a bare |) among operands, operators, parentheses and
\* commas, and with a zero byte, which the lexer takes for the end of input.
IllegalLexemes ==
    {<<"a">>, <<minus>>, <<leftParen>>, <<rightParen>>, <<comma>>,
     <<ampersand>>, <<pipe>>, <<"#">>, <<NUL>>}

InitIllegal ==
    /\ input \in LexemeSources(IllegalLexemes, MaxToks)
    /\ source = input
    /\ InitWith("new")

SpecIllegal == InitIllegal /\ [][NextParse]_vars

\* Sources that open a parenthesis and do not close it: a grouped expression
\* `( e x` or a call `f ( e1, ..., en x`, n in 1..MaxArgs, where e and the ei
\* are well-formed expressions and x, the token found in place of `)`, is
\* the end of the input or a token that cannot continue an expression.
CloseBodies ==
    {<<<<"a">>>>,
     <<<<"a">>, <<plus>>, <<"1">>>>,
     <<<<minus>>, <<"a">>>>,
     <<<<"g">>, <<leftParen>>, <<rightParen>>>>,
     <<<<leftParen>>, <<"a">>, <<rightParen>>>>}

Follower(lexemes, type) == [lexemes |-> lexemes, type |-> type]

CloseFollowers ==
    {Follower(<<>>, EOF),
     Follower(<<<<"b">>>>, Identifier),
     Follower(<<<<"2">>>>, Number),
     Follower(<<<<ampersand>>>>, Illegal),
     Follower(<<<<leftSquareBracket>>>>, LeftSquareBracket),
     Follower(<<<<rightSquareBracket>>>>, RightSquareBracket),
     Follower(<<<<rightCurlyBracket>>>>, RightCurlyBracket),
     Follower(<<<<eqSym>>>>, Assign),
     Follower(<<<<colon>>>>, Colon)}

CloseCase(shape, bodies, x, spaced) ==
    [shape |-> shape, bodies |-> bodies, x |-> x, spaced |-> spaced]

CloseCases ==
    {CloseCase("group", <<b>>, x, spaced) :
        b \in CloseBodies, x \in CloseFollowers, spaced \in BOOLEAN}
    \cup
    {CloseCase("call", bs, x, spaced) :
        bs \in SeqsUpTo(CloseBodies, MaxArgs) \ {<<>>}, x \in CloseFollowers,
        spaced \in BOOLEAN}

RECURSIVE ListLexemes(_)
ListLexemes(bodies) ==
    IF bodies = <<>> THEN <<>>
    ELSE Head(bodies)
         \o (IF Len(bodies) > 1 THEN <<<<comma>>>> ELSE <<>>)
         \o ListLexemes(Tail(bodies))

\* the lexemes up to the place where `)` is missing
CloseHead(t) ==
    (IF t.shape = "call" THEN <<<<"f">>>> ELSE <<>>)
    \o <<<<leftParen>>>> \o ListLexemes(t.bodies)

\* with one space between all lexemes, or only before x
CloseSrc(t) ==
    IF t.spaced THEN Join(CloseHead(t) \o t.x.lexemes, <<" ">>)
    ELSE Join(<<Concat(CloseHead(t))>> \o t.x.lexemes, <<" ">>)

InitClose ==
    /\ input \in CloseCases
    /\ source = CloseSrc(input)
    /\ InitWith("new")

SpecClose == InitClose /\ [][NextParse]_vars

\* Sources made of digits and dots, with a letter, an operator and a space
\* to end the runs; a client pulls their tokens, another one parses them.
NumberChunks == {<<"1">>, <<"0">>, <<dot>>, <<" ">>, <<"a">>, <<plus>>}

InitNumber ==
    /\ input \in ChunkSources(NumberChunks, MaxChunks)
    /\ source = input
    /\ \E startPc \in {"lex", "new"} : InitWith(startPc)

NextNumber == CallNextToken \/ NextParse

SpecNumber == InitNumber /\ [][NextNumber]_vars

-----------------------------------------------------------------------------
(* Properties of the lexer *)

\* the symbol at 0-based index i of the source, the end sentinel past its end
SymbolAt(i) == IF i < Len(source) THEN source[i + 1] ELSE NUL

\* C1: once NextToken has returned an end-of-input token, every later
\* NextToken call returns an end-of-input token with empty literal, and no
\* call fails.
C1_EofAbsorbing ==
    [][(calls > 0 /\ tok.Type = EOF)
         => (tok'.Type = EOF /\ tok'.Literal = <<>> /\ ~panicked')]_vars

\* C9: after construction and after every NextToken call,
\* readPosition = position + 1 and the current symbol is source[position],
\* or the end sentinel when position >= len(source).
C9_PositionInvariant ==
    /\ lexer.readPosition = lexer.position + 1
    /\ lexer.char = SymbolAt(lexer.position)

C9_Witness ==
    /\ calls >= 2
    /\ lexer.position < Len(source)
    /\ lexer.char # NUL
    /\ tok.Type # EOF

\* the tokens C8 names: for a first symbol, the symbol that completes the
\* two-symbol form, the kind of that form and the kind of the symbol alone
TwoSymbolForms ==
    {<<eqSym, eqSym, EqualTo, Assign>>,
     <<bang, eqSym, NotEqualTo, Bang>>,
     <<greaterThan, eqSym, GreaterThanEqualTo, GreaterThan>>,
     <<lessThan, eqSym, LessThanEqualTo, LessThan>>,
     <<ampersand, ampersand, And, Illegal>>,
     <<pipe, pipe, Or, Illegal>>}

\* C8: at =, !, > or < followed by =, NextToken returns the combined token
\* (==, !=, >=, <=) with both symbols as literal and consumes two symbols,
\* otherwise the single-symbol token consuming one; && and || give And and Or
\* consuming two symbols, a lone & or | gives Illegal consuming one.
C8_TwoCharOperators ==
    (calls > 0 /\ ~panicked) =>
        \A f \in TwoSymbolForms :
            SymbolAt(tokStart) = f[1] =>
                IF SymbolAt(tokStart + 1) = f[2]
                THEN /\ tok = [Type |-> f[3], Literal |-> <<f[1], f[2]>>]
                     /\ lexer.position = tokStart + 2
                ELSE /\ tok = [Type |-> f[4], Literal |-> <<f[1]>>]
                     /\ lexer.position = tokStart + 1

C8_Witness ==
    /\ calls = 2
    /\ tok = [Type |-> NotEqualTo, Literal |-> <<bang, eqSym>>]
    /\ tokStart = 1
    /\ lexer.position = 3
    /\ source = <<ampersand, bang, eqSym>>

\* the end of the maximal run of letters and underscores that starts at i
RunEnd(i) ==
    CHOOSE e \in i..Len(source) :
        /\ \A j \in i..(e - 1) : IsAlpha(SymbolAt(j))
        /\ ~IsAlpha(SymbolAt(e))

\* C10: a maximal run of letter/underscore symbols is lexed as one token whose
\* literal is the whole run; its kind is Def or Extern only when the whole
\* run is `def` or `extern`, and Identifier otherwise.
C10_IdentifierRun ==
    (calls > 0 /\ IsAlpha(SymbolAt(tokStart))) =>
        /\ ~panicked
        /\ tokStart = 0 \/ ~IsAlpha(SymbolAt(tokStart - 1))
        /\ tok.Literal = Slice(source, tokStart, RunEnd(tokStart))
        /\ lexer.position = RunEnd(tokStart)
        /\ tok.Type = (IF tok.Literal = <<"d", "e", "f">> THEN Def
                       ELSE IF tok.Literal = <<"e", "x", "t", "e", "r", "n">> THEN Extern
                       ELSE Identifier)

C10_Witness ==
    /\ calls > 0
    /\ tok = [Type |-> Identifier, Literal |-> <<"d", "e", "f", "i", "n", "e">>]

-----------------------------------------------------------------------------
(* Properties of the parser *)

\* Parser.Errors()
Errors == parser.errors

\* String() of the program built so far
Rendered == ProgramString(program).out

\* C2: ParseProgram terminates, and every iteration of its statement loop
\* advances the parser's token position (the number of tokens pulled from the
\* lexer) by at least one, diagnostics or not.  Termination is stated by the
\* loop's variant: the token position grows in every iteration and never
\* passes len(source) + 3, so the loop runs at most that many times.
C2_TerminatesAndAdvances ==
    [][(pc = "parse" /\ pc' = "parse")
          => (calls' > calls /\ calls' <= Len(source) + 3)]_vars

C2_Witness ==
    /\ pc = "done"
    /\ Len(program) >= 2
    /\ Len(Errors) >= 2
    /\ calls >= 5

\* the source ends with a binary operator: end-of-input follows it
EndsWithBinaryOperator ==
    /\ source # <<>>
    /\ \E op \in BinaryOperators :
          /\ Len(op) <= Len(source)
          /\ SubSeq(source, Len(source) - Len(op) + 1, Len(source)) = op

\* C3: ParseProgram returns a Program and does not abort; when a binary
\* operator is followed by end-of-input at least one diagnostic is recorded
\* and the Program holds the partial statement: for `a +` an infix expression
\* with its left operand and no right operand.
C3_DanglingOperator ==
    /\ ~panicked
    /\ (pc = "done" /\ EndsWithBinaryOperator) =>
          /\ Len(Errors) >= 1
          /\ Len(program) >= 1
    /\ (pc = "done" /\ \E op \in {plus, minus} : source = <<"a", " ", op>>) =>
          /\ Len(Errors) = 1
          /\ Errors[1].msg = "no prefix parse function"
          /\ Errors[1].want = EOF
          /\ Len(program) = 1
          /\ program[1].Expr.kind = "InfixExpr"
          /\ program[1].Expr.Left = IdentifierNode(MakeToken(Identifier, "a"), <<"a">>)
          /\ program[1].Expr.Operator = <<source[3]>>
          /\ program[1].Expr.Right = Nil

C3_Witness ==
    /\ pc = "done"
    /\ source = <<"a", " ", plus>>
    /\ Len(Errors) = 1
    /\ program[1].Expr.kind = "InfixExpr"
    /\ program[1].Expr.Right = Nil

\* the rendering expected of an infix, a prefix and a call expression
InfixText(left, op, right) ==
    <<"(">> \o left \o <<" ">> \o op \o <<" ">> \o right \o <<")">>
PrefixText(op, right) == <<"(">> \o op \o right \o <<")">>
CallText(f, arg) == f \o <<"(">> \o arg \o <<")">>

\* the precedence table as the specification states it, lowest binding first
Level(op) ==
    CASE op \in {<<ampersand, ampersand>>, <<pipe, pipe>>} -> 1
      [] op \in {<<eqSym, eqSym>>, <<bang, eqSym>>} -> 2
      [] op \in {<<greaterThan, eqSym>>, <<lessThan, eqSym>>} -> 3
      [] op \in {<<lessThan>>, <<greaterThan>>} -> 4
      [] op \in {<<plus>>, <<minus>>} -> 5
      [] op \in {<<star>>, <<slash>>, <<modulo>>} -> 6

\* C4: binary operators are left-associative: with op1 and op2 of equal
\* precedence, `a op1 b op2 c` is parsed to the tree rendered
\* `((a op1 b) op2 c)`, with no diagnostics.
C4_LeftAssociative ==
    pc = "done" =>
        LET t == input
        IN  (t.shape = "chain" /\ Level(t.op1) = Level(t.op2)) =>
                /\ Rendered = InfixText(InfixText(t.a, t.op1, t.b), t.op2, t.c)
                /\ Len(program) = 1
                /\ Errors = <<>>

C4_Witness ==
    /\ pc = "done"
    /\ source = <<"x", " ", "-", " ", "2", " ", "-", " ", "x">>
    /\ Rendered = <<"(", "(", "x", " ", "-", " ", "2", ")", " ", "-", " ", "x", ")">>
    /\ Errors = <<>>

\* C5: binding follows the precedence table: `a op1 b op2 c` is
\* `(a op1 (b op2 c))` when op2 binds strictly tighter than op1 and
\* `((a op1 b) op2 c)` otherwise; a prefix operator binds tighter than every
\* binary operator and a call tighter than both; a parenthesised group is one
\* operand.
C5_Precedence ==
    pc = "done" =>
        LET t == input
        IN  /\ Len(program) = 1
            /\ t.shape = "chain" =>
                  Rendered = IF Level(t.op2) > Level(t.op1)
                             THEN InfixText(t.a, t.op1, InfixText(t.b, t.op2, t.c))
                             ELSE InfixText(InfixText(t.a, t.op1, t.b), t.op2, t.c)
            /\ t.shape = "group" =>
                  Rendered = InfixText(InfixText(t.a, t.op1, t.b), t.op2, t.c)
            /\ t.shape = "prefix" =>
                  Rendered = InfixText(PrefixText(t.pre, t.a), t.op1, t.b)
            /\ t.shape = "call" =>
                  Rendered = InfixText(t.a, t.op1, CallText(<<"f">>, t.b))
            /\ t.shape = "prefixcall" =>
                  Rendered = PrefixText(t.pre, CallText(<<"f">>, t.b))

C5_Witness ==
    /\ pc = "done"
    /\ source = <<"x", "+", "2", "*", "x">>
    /\ Rendered = <<"(", "x", " ", "+", " ", "(", "2", " ", "*", " ", "x", ")", ")">>

\* a parser constructed over a fresh lexer for src
StartState(src) ==
    nextToken(src, nextToken(src,
        [l |-> New(src), tok |-> ZeroToken, calls |-> 0, start |-> 0,
         panic |-> FALSE, curr |-> ZeroToken, peek |-> ZeroToken, errors |-> <<>>]))

\* the expression parsed from src alone, at the lowest precedence
ParsedAlone(src) == parseExpression(src, StartState(src), LOWEST).e

\* C6: a well-formed call `f(a1, ..., an)`, n >= 0, is parsed to a call
\* expression with callee f and exactly the n arguments in source order, each
\* the tree of that argument parsed as a full expression at lowest precedence;
\* it renders as `f(a1, ..., an)`, the arguments separated by a comma and a
\* space, and no diagnostic is recorded.
C6_CallArguments ==
    pc = "done" =>
        LET args == input[1]
            spaced == input[2]
            call == program[1].Expr
            alone(arg) == ParsedAlone(IF spaced THEN Join(arg.lexemes, <<" ">>)
                                      ELSE Concat(arg.lexemes))
        IN /\ Len(program) = 1
           /\ call.kind = "CallExpr"
           /\ call.Function = IdentifierNode(MakeToken(Identifier, "f"), <<"f">>)
           /\ ~call.Arguments.nil
           /\ Len(call.Arguments.items) = Len(args)
           /\ \A i \in 1..Len(args) : call.Arguments.items[i] = alone(args[i])
           /\ Rendered = <<"f", "(">>
                         \o Join([j \in 1..Len(args) |-> args[j].text], <<",", " ">>)
                         \o <<")">>
           /\ Errors = <<>>

C6_Witness ==
    /\ pc = "done"
    /\ source = <<"f", "(", "1", ",", "2", "+", "3", ")">>
    /\ Rendered = <<"f", "(", "1", ",", " ", "(", "2", " ", "+", " ", "3", ")", ")">>
    /\ Len(program[1].Expr.Arguments.items) = 2

\* C7: the diagnostic list is append-only: no step of the construction or of
\* ParseProgram shortens it or changes an entry already recorded.
C7_ErrorsAppendOnly ==
    [][/\ Len(parser'.errors) >= Len(parser.errors)
       /\ SubSeq(parser'.errors, 1, Len(parser.errors)) = parser.errors]_vars

C7_Witness ==
    /\ pc = "done"
    /\ Len(Errors) >= 3
    /\ Errors[1].msg = "no prefix parse function"
    /\ \E i \in 2..Len(Errors) : Errors[i].msg = "expected next token"

\* C11: rendering the Program returned by ParseProgram completes for every
\* source, the ones that produced diagnostics included: no String call fails
\* on a null operand, callee, argument or expression.
C11_RenderCompletes == pc = "rendered" => ~panicked

\* the tokens NextToken returns before its first end-of-input token, at most
\* n of them
RECURSIVE TokensBeforeEOF(_, _, _)
TokensBeforeEOF(src, l, n) ==
    LET r == NextToken(src, l)
    IN IF n = 0 \/ r.tok.Type = EOF THEN <<>>
       ELSE <<r.tok>> \o TokensBeforeEOF(src, r.l, n - 1)

SourceTokens == TokensBeforeEOF(source, New(source), Len(source))

IllegalTokens ==
    Cardinality({i \in 1..Len(SourceTokens) : SourceTokens[i].Type = Illegal})

IllegalDiagnostics ==
    Cardinality({i \in 1..Len(Errors) :
        Errors[i].msg = "no prefix parse function" /\ Errors[i].want = Illegal})

HasZeroByte == \E i \in 1..Len(source) : source[i] = NUL

\* C12: every Illegal token emitted before the first end-of-input token
\* becomes the current token of exactly one parseExpression call and records
\* exactly one no-prefix diagnostic: after ParseProgram there is one such
\* diagnostic per Illegal token, none is skipped or taken as an operator.
\* (Past a zero byte the parser goes on to the tokens after it, so there the
\* diagnostics can only be more.)
C12_IllegalDiagnosed ==
    pc = "done" =>
        /\ IllegalDiagnostics >= IllegalTokens
        /\ ~HasZeroByte => IllegalDiagnostics = IllegalTokens

C12_Witness ==
    /\ pc = "done"
    /\ ~HasZeroByte
    /\ IllegalTokens >= 2
    /\ \E i \in 1..Len(SourceTokens) : SourceTokens[i].Type = LeftParen
    /\ IllegalDiagnostics = IllegalTokens

\* C13: when the lookahead after a grouped expression or after an argument
\* list is not `)`, exactly one expected-token diagnostic is appended and
\* nothing is consumed (the statement loop's own advance then lands on that
\* lookahead token); the grouped expression yields a null expression, the
\* argument list a null list inside a call node that is still produced.
C13_MissingCloseParen ==
    LET t == input
        n == Len(CloseHead(t))
        expected == Diagnostic("expected next token", RightParen, t.x.type, <<>>)
    IN Len(program) >= 1 =>
        /\ ~panicked
        /\ Len(Errors) >= 1 /\ Errors[1] = expected
        /\ Len(program) = 1 =>
              /\ Errors = <<expected>>
              /\ calls = n + 2
              /\ parser.currToken.Type = t.x.type
        /\ t.shape = "group" => program[1].Expr = Nil
        /\ t.shape = "call" =>
              /\ program[1].Expr.kind = "CallExpr"
              /\ program[1].Expr.Function.kind = "Identifier"
              /\ program[1].Expr.Function.Value = <<"f">>
              /\ program[1].Expr.Arguments = NilList

C13_Witness ==
    /\ input.shape = "call"
    /\ Len(input.bodies) = 2
    /\ input.x.type = Identifier
    /\ Len(program) = 1
    /\ program[1].Expr.kind = "CallExpr"
    /\ program[1].Expr.Arguments = NilList
    /\ Len(Errors) = 1

\* the end of the maximal run of digits and dots that starts at i
NumberRunEnd(i) ==
    CHOOSE e \in i..Len(source) :
        /\ \A j \in i..(e - 1) : SymbolAt(j) \in Digits \cup {dot}
        /\ SymbolAt(e) \notin Digits \cup {dot}

\* a literal of digits and dots that is a decimal number
ValidNumber(lit) == Cardinality({i \in 1..Len(lit) : lit[i] = dot}) <= 1

IsInvalidNumberToken(t) == t.Type = Number /\ ~ValidNumber(t.Literal)
IsNumberDiagnostic(d) == d.msg = "could not parse as integer"

InvalidNumberLiterals ==
    LET toks == SelectSeq(SourceTokens, IsInvalidNumberToken)
    IN [i \in 1..Len(toks) |-> toks[i].Literal]

NumberDiagnosticLiterals ==
    LET ds == SelectSeq(Errors, IsNumberDiagnostic)
    IN [i \in 1..Len(ds) |-> ds[i].literal]

\* C14: a run of digits and dots that starts with a digit, taken as far as it
\* goes, is one Number token whose literal is the whole run, with no failure
\* and no Illegal token however many dots it has; and the parser records
\* exactly one diagnostic for every Number token whose literal is not a
\* decimal number, in order, and yields a null expression in its place.
C14_NumberRun ==
    /\ (pc = "lex" /\ calls > 0) =>
          /\ tok.Type # Illegal
          /\ IsNumeric(SymbolAt(tokStart)) =>
                /\ ~panicked
                /\ tok = [Type |-> Number,
                          Literal |-> Slice(source, tokStart, NumberRunEnd(tokStart))]
                /\ lexer.position = NumberRunEnd(tokStart)
    /\ pc = "done" =>
          /\ ~panicked
          /\ NumberDiagnosticLiterals = InvalidNumberLiterals
          /\ (Len(SourceTokens) = 1 /\ SourceTokens[1].Type = Number) =>
                /\ Len(program) = 1
                /\ program[1].Token = SourceTokens[1]
                /\ IF ValidNumber(SourceTokens[1].Literal)
                   THEN /\ program[1].Expr.kind = "NumberLiteral"
                        /\ program[1].Expr.Token = SourceTokens[1]
                        /\ Errors = <<>>
                   ELSE /\ program[1].Expr = Nil
                        /\ Len(Errors) = 1

C14_Witness ==
    /\ pc = "done"
    /\ source = <<"1", dot, "0", dot>>
    /\ program = <<ExpressionStmt([Type |-> Number, Literal |-> source], Nil)>>
    /\ Errors = <<Diagnostic("could not parse as integer", "", "", source)>>

\* the index of the first `"` after index i, or the length of the source
ClosingQuote(i) ==
    CHOOSE e \in (i + 1)..Len(source) :
        /\ \A j \in (i + 1)..(e - 1) : SymbolAt(j) # quote
        /\ e < Len(source) => SymbolAt(e) = quote

\* C15: a NextToken call that starts at a `"` returns one String token whose
\* literal is the symbols strictly between that quote and the next one, both
\* quotes consumed; with no closing quote the literal is every symbol up to
\* the end of the source, no Illegal token and no failure, and the call after
\* it returns an end-of-input token.
C15_StringLiteral ==
    [][/\ (tokStart' < Len(source) /\ SymbolAt(tokStart') = quote) =>
            /\ ~panicked'
            /\ tok' = [Type |-> String,
                       Literal |-> Slice(source, tokStart' + 1, ClosingQuote(tokStart'))]
            /\ lexer'.position = ClosingQuote(tokStart') + 1
       /\ (/\ calls > 0
           /\ tokStart < Len(source)
           /\ SymbolAt(tokStart) = quote
           /\ ClosingQuote(tokStart) = Len(source)) =>
            tok'.Type = EOF]_vars

\* C16: every iteration of the statement loop appends exactly one
\* ExpressionStatement, after the ones already there (so the program holds
\* one statement per iteration, in source order); the statement carries the
\* token the iteration started at, and when its expression could not be
\* parsed it carries a null expression and renders as the empty string.
C16_OneStatementPerIteration ==
    [][(pc = "parse" /\ pc' = "parse") =>
         /\ Len(program') = Len(program) + 1
         /\ SubSeq(program', 1, Len(program)) = program
         /\ LET stmt == program'[Len(program')]
            IN /\ stmt.kind = "ExpressionStmt"
               /\ stmt.Token = parser.currToken
               /\ parser.currToken.Type
                     \notin {Identifier, Number, Bang, Minus, LeftParen}
                     => stmt.Expr = Nil
               /\ stmt.Expr = Nil =>
                     ExpressionStmtString(stmt) = [panic |-> FALSE, out |-> <<>>]]_vars

C16_Witness ==
    /\ pc = "done"
    /\ Len(program) = 3
    /\ program[1].Expr.kind = "Identifier"
    /\ program[2].Expr = Nil
    /\ program[3].Expr.kind = "PrefixExpr"
    /\ ExpressionStmtString(program[2]).out = <<>>

\* C17: every NextToken call strictly increases the lexer's position, and
\* every call that returns a token other than end-of-input consumes at least
\* one source symbol (position was inside the source and the token starts
\* inside it); so on a source of n symbols without a zero byte the calls
\* from the (n + 1)-th on return end-of-input.
C17_LexerProgress ==
    [][/\ lexer'.position > lexer.position
       /\ tok'.Type # EOF =>
            /\ lexer.position < Len(source)
            /\ lexer.position <= tokStart' /\ tokStart' < Len(source)
            /\ lexer'.position > tokStart'
       /\ (~HasZeroByte /\ calls' >= Len(source) + 1) => tok'.Type = EOF]_vars

C17_Witness ==
    /\ pc = "lex"
    /\ ~HasZeroByte
    /\ Len(source) = MaxSrcLen
    /\ calls = Len(source) + 1
    /\ tok.Type = EOF
    /\ lexer.position = Len(source) + 1

\* an expression that is null or holds a null operand, callee, argument
\* list or argument
RECURSIVE HasNull(_)
HasNull(e) ==
    CASE e.kind = "nil" -> TRUE
      [] e.kind \in {"Identifier", "NumberLiteral"} -> FALSE
      [] e.kind = "PrefixExpr" -> HasNull(e.Right)
      [] e.kind = "InfixExpr" -> HasNull(e.Left) \/ HasNull(e.Right)
      [] e.kind = "CallExpr" ->
            \/ HasNull(e.Function)
            \/ e.Arguments.nil
            \/ \E i \in 1..Len(e.Arguments.items) : HasNull(e.Arguments.items[i])

\* C18: if the diagnostic list is empty after ParseProgram, the tree holds no
\* null placeholder: every statement has an expression, and every prefix
\* operand, infix operand, callee, argument list and argument is non-null.
C18_NoErrorsNoNull ==
    (pc = "done" /\ Errors = <<>>) =>
        \A i \in 1..Len(program) :
            /\ program[i].kind = "ExpressionStmt"
            /\ ~HasNull(program[i].Expr)

C18_Witness ==
    /\ pc = "done"
    /\ Errors = <<>>
    /\ Len(program) = 1
    /\ program[1].Expr.kind = "CallExpr"
    /\ ~program[1].Expr.Arguments.nil
    /\ Len(program[1].Expr.Arguments.items) = 1
    /\ ~HasNull(program[1].Expr)

=============================================================================
